---- MODULE Spec2Model ----
(***************************************************************************)
(* Model of lessons/lesson6_6.py: shape_element reshapes one parsed        *)
(* OpenStreetMap XML element into a nested document.                       *)
(*                                                                         *)
(* Strings are sequences of one-character strings, so that splitting on    *)
(* ':', prefix tests, the problematic-character search and float() are     *)
(* computed on the characters.  A Python value stored in the document is   *)
(* one of Str(s), Map(m), List(l), Flt(mantissa, scale); the document      *)
(* itself is a function from keys to such values.                          *)
(***************************************************************************)
EXTENDS Integers, Sequences, FiniteSets

VARIABLES element, node, pc, i, j, outcome

vars == <<element, node, pc, i, j, outcome>>

(* ------------------------------ bounds -------------------------------- *)

\* An element carries at most MaxItems attributes and descendants together.
MaxItems == 3

(* ------------------------------ strings ------------------------------- *)

S_empty == <<>>
S_node == <<"n","o","d","e">>
S_way == <<"w","a","y">>
S_relation == <<"r","e","l","a","t","i","o","n">>
S_tag == <<"t","a","g">>
S_nd == <<"n","d">>
S_member == <<"m","e","m","b","e","r">>
S_k == <<"k">>
S_v == <<"v">>
S_ref == <<"r","e","f">>
S_type == <<"t","y","p","e">>
S_created == <<"c","r","e","a","t","e","d">>
S_pos == <<"p","o","s">>
S_address == <<"a","d","d","r","e","s","s">>
S_node_refs == <<"n","o","d","e","_","r","e","f","s">>
S_version == <<"v","e","r","s","i","o","n">>
S_changeset == <<"c","h","a","n","g","e","s","e","t">>
S_timestamp == <<"t","i","m","e","s","t","a","m","p">>
S_user == <<"u","s","e","r">>
S_uid == <<"u","i","d">>
S_lat == <<"l","a","t">>
S_lon == <<"l","o","n">>
S_id == <<"i","d">>
COLON == ":"
S_addr_prefix == <<"a","d","d","r",":">>
S_street == <<"s","t","r","e","e","t">>
S_addr_street == S_addr_prefix \o S_street
S_addr_street_name == S_addr_street \o <<":","n","a","m","e">>
S_amenity == <<"a","m","e","n","i","t","y">>
S_a_dot_b == <<"a",".","b">>
S_1_5 == <<"1",".","5">>
S_m2_50 == <<"-","2",".","5","0">>
S_x == <<"x">>
S_7 == <<"7">>
S_9 == <<"9">>
S_cafe == <<"c","a","f","e">>
S_Main == <<"M","a","i","n">>
S_r1 == <<"r","1">>
S_r2 == <<"r","2">>

(* --------------------------- Python values ---------------------------- *)

Str(s) == [str |-> s]
Map(m) == [map |-> m]
List(l) == [list |-> l]
Flt(m, e) == [flt |-> <<m, e>>]

IsStr(x) == DOMAIN x = {"str"}
IsMap(x) == DOMAIN x = {"map"}
IsList(x) == DOMAIN x = {"list"}
IsFlt(x) == DOMAIN x = {"flt"}

EmptyDict == <<>>

\* d[k] = v on a dict
Put(d, k, v) == [x \in DOMAIN d \cup {k} |-> IF x = k THEN v ELSE d[x]]

\* x in list
In(x, list) == \E n \in DOMAIN list : list[n] = x

\* The result of a step: the document and the exception raised, if any.
Ok(n) == [node |-> n, err |-> "none"]
Raise(n, e) == [node |-> n, err |-> e]

(* --------------------------- str operations --------------------------- *)

\* str.startswith
startswith(s, p) == Len(s) >= Len(p) /\ SubSeq(s, 1, Len(p)) = p

\* str.split(":")
RECURSIVE split(_)
split(s) ==
    LET colons == {n \in 1..Len(s) : s[n] = COLON}
    IN  IF colons = {} THEN <<s>>
        ELSE LET c == CHOOSE n \in colons : \A o \in colons : n <= o
             IN  <<SubSeq(s, 1, c - 1)>> \o split(SubSeq(s, c + 1, Len(s)))

Digits == <<"0","1","2","3","4","5","6","7","8","9">>

IsDigits(s) == \A n \in 1..Len(s) : In(s[n], Digits)

DigitVal(c) == (CHOOSE n \in 1..Len(Digits) : Digits[n] = c) - 1

RECURSIVE ToNat(_)
ToNat(s) ==
    IF s = <<>> THEN 0
    ELSE ToNat(SubSeq(s, 1, Len(s) - 1)) * 10 + DigitVal(s[Len(s)])

RECURSIVE Normalize(_, _)
Normalize(m, e) ==
    IF e > 0 /\ m % 10 = 0 THEN Normalize(m \div 10, e - 1) ELSE <<m, e>>

\* float(s) on decimal literals [+-]digits[.digits]: the number as
\* mantissa * 10^-scale with trailing zeros removed, or ValueError.
float(s) ==
    LET signed == Len(s) > 0 /\ s[1] \in {"+", "-"}
        body == IF signed THEN Tail(s) ELSE s
        dots == {n \in 1..Len(body) : body[n] = "."}
        d == IF dots = {} THEN Len(body) + 1 ELSE CHOOSE n \in dots : TRUE
        ip == SubSeq(body, 1, d - 1)
        fp == SubSeq(body, d + 1, Len(body))
        valid == /\ Cardinality(dots) <= 1
                 /\ IsDigits(ip) /\ IsDigits(fp)
                 /\ Len(ip) + Len(fp) > 0
        mag == Normalize(ToNat(ip \o fp), Len(fp))
        sgn == IF signed /\ s[1] = "-" THEN -1 ELSE 1
    IN  IF valid THEN [ok |-> TRUE, val |-> Flt(sgn * mag[1], mag[2])]
        ELSE [ok |-> FALSE, val |-> Flt(0, 0)]

(* ------------------------- module constants --------------------------- *)

PROBLEM_CHARS ==
    {"=", "+", "/", "&", "<", ">", ";", "'", "\"", "?", "%", "#", "$", "@",
     ",", ".", " ", "\t", "\r", "\n"}

CREATED == <<S_version, S_changeset, S_timestamp, S_user, S_uid>>

POSITION == <<S_lat, S_lon>>

(* ----------------------------- predicates ----------------------------- *)

\* re.search(PROBLEM_CHARS, string)
contains_bad_char(string) ==
    \E n \in 1..Len(string) : string[n] \in PROBLEM_CHARS

is_compound_street_address_idx0(string) ==
    LET values == split(string)
    IN  Len(values) > 2 /\ values[1] = S_street

is_compound_street_address(string) ==
    LET values == split(string)
    IN  Len(values) > 2 /\ values[2] = S_street

(* ------------------------ transform functions ------------------------- *)

\* One iteration of the loop over element.attrib.
attribute_step(n, attribute, value) ==
    IF In(attribute, CREATED) THEN
        LET n1 == IF S_created \notin DOMAIN n
                  THEN Put(n, S_created, Map(EmptyDict)) ELSE n
        IN  IF IsMap(n1[S_created])
            THEN Ok(Put(n1, S_created,
                        Map(Put(n1[S_created].map, attribute, Str(value)))))
            ELSE Raise(n1, "TypeError")
    ELSE IF In(attribute, POSITION) THEN
        LET n1 == IF S_pos \notin DOMAIN n
                  THEN Put(n, S_pos, List(<<>>)) ELSE n
            f == float(value)
        IN  IF ~IsList(n1[S_pos]) THEN Raise(n1, "AttributeError")
            ELSE IF ~f.ok THEN Raise(n1, "ValueError")
            ELSE IF attribute = S_lat
            THEN Ok(Put(n1, S_pos, List(<<f.val>> \o n1[S_pos].list)))
            ELSE Ok(Put(n1, S_pos, List(Append(n1[S_pos].list, f.val))))
    ELSE Ok(Put(n, attribute, Str(value)))

\* The loop of transform_element_attributes from the at-th attribute on.
RECURSIVE attributes_from(_, _, _)
attributes_from(n, attrib, at) ==
    IF at > Len(attrib) THEN Ok(n)
    ELSE LET r == attribute_step(n, attrib[at].name, attrib[at].value)
         IN  IF r.err # "none" THEN r
             ELSE attributes_from(r.node, attrib, at + 1)

transform_element_attributes(n, elem) == attributes_from(n, elem.attrib, 1)

transform_tag_elem(n, sub_elem) ==
    IF S_k \notin DOMAIN sub_elem.attrib THEN Raise(n, "KeyError")
    ELSE IF S_v \notin DOMAIN sub_elem.attrib THEN Raise(n, "KeyError")
    ELSE
        LET k_val == sub_elem.attrib[S_k]
            v_val == sub_elem.attrib[S_v]
        IN  IF contains_bad_char(k_val) \/ is_compound_street_address(k_val)
            THEN Ok(n)
            ELSE IF startswith(k_val, S_addr_prefix) THEN
                LET n1 == IF S_address \notin DOMAIN n
                          THEN Put(n, S_address, Map(EmptyDict)) ELSE n
                    key == split(k_val)[2]
                IN  IF IsMap(n1[S_address])
                    THEN Ok(Put(n1, S_address,
                                Map(Put(n1[S_address].map, key, Str(v_val)))))
                    ELSE Raise(n1, "TypeError")
            ELSE Ok(Put(n, k_val, Str(v_val)))

transform_nd_tag(n, sub_elm) ==
    IF S_ref \notin DOMAIN sub_elm.attrib THEN Raise(n, "KeyError")
    ELSE
        LET ref == sub_elm.attrib[S_ref]
        IN  IF S_node_refs \in DOMAIN n THEN
                IF IsList(n[S_node_refs])
                THEN Ok(Put(n, S_node_refs,
                            List(Append(n[S_node_refs].list, Str(ref)))))
                ELSE Raise(n, "AttributeError")
            ELSE Ok(Put(n, S_node_refs, List(<<Str(ref)>>)))

\* One iteration of the loop over element.getiterator().
sub_elem_step(n, sub_elm) ==
    IF sub_elm.tag = S_tag THEN transform_tag_elem(n, sub_elm)
    ELSE IF sub_elm.tag = S_nd THEN transform_nd_tag(n, sub_elm)
    ELSE Ok(n)

\* element.getiterator(): the element itself, then its descendants in
\* document order.
getiterator(elem) ==
    <<[tag |-> elem.tag,
       attrib |-> [a \in {elem.attrib[n].name : n \in DOMAIN elem.attrib} |->
                     (CHOOSE p \in {elem.attrib[n] : n \in DOMAIN elem.attrib} :
                         p.name = a).value]]>>
    \o elem.descendants

\* The loop of transform_sub_elem_attributes from the at-th sub-element on.
RECURSIVE sub_elems_from(_, _, _)
sub_elems_from(n, sub_elements, at) ==
    IF at > Len(sub_elements) THEN Ok(n)
    ELSE LET r == sub_elem_step(n, sub_elements[at])
         IN  IF r.err # "none" THEN r
             ELSE sub_elems_from(r.node, sub_elements, at + 1)

transform_sub_elem_attributes(n, elem) ==
    sub_elems_from(n, getiterator(elem), 1)

accepts_node_only(tag) == tag = S_node

\* The test of shape_element on element.tag.
accepts(tag) == tag = S_node \/ tag = S_way

\* shape_element as a function: what it returns ("None" or "doc" with the
\* document) or the exception it raises.
shape_element(elem) ==
    IF accepts(elem.tag) THEN
        LET r1 == transform_element_attributes(Put(EmptyDict, S_type, Str(elem.tag)), elem)
        IN  IF r1.err # "none" THEN [outcome |-> r1.err, node |-> r1.node]
            ELSE LET r2 == transform_sub_elem_attributes(r1.node, elem)
                 IN  IF r2.err # "none" THEN [outcome |-> r2.err, node |-> r2.node]
                     ELSE [outcome |-> "doc", node |-> r2.node]
    ELSE [outcome |-> "None", node |-> EmptyDict]

(* ------------------------------ inputs -------------------------------- *)

Tags == {S_node, S_way, S_relation}

Attr(name, value) == [name |-> name, value |-> value]

AttrPairs ==
    {Attr(S_lat, S_1_5), Attr(S_lat, S_x), Attr(S_lon, S_m2_50),
     Attr(S_lon, S_empty), Attr(S_version, S_7), Attr(S_id, S_9),
     Attr(S_type, S_x), Attr(S_created, S_x)}

TagElem(k, v) == [tag |-> S_tag, attrib |-> Put(Put(EmptyDict, S_k, k), S_v, v)]

NdElem(ref) == [tag |-> S_nd, attrib |-> Put(EmptyDict, S_ref, ref)]

SubElems ==
    {TagElem(S_amenity, S_cafe), TagElem(S_addr_street, S_Main),
     TagElem(S_addr_street_name, S_Main), TagElem(S_a_dot_b, S_x),
     TagElem(S_type, S_x), TagElem(S_address, S_x),
     TagElem(S_node_refs, S_x), TagElem(S_pos, S_x),
     [tag |-> S_tag, attrib |-> Put(EmptyDict, S_k, S_a_dot_b)],
     NdElem(S_r1), NdElem(S_r2),
     [tag |-> S_nd, attrib |-> EmptyDict],
     [tag |-> S_member, attrib |-> EmptyDict]}

SeqsOfLen(S, n) == [1..n -> S]

SeqsUpTo(S, n) == UNION {SeqsOfLen(S, m) : m \in 0..n}

\* Attribute names of an element are unique; their order is the iteration
\* order of element.attrib.
AttribsOfLen(n) ==
    {a \in SeqsOfLen(AttrPairs, n) :
        \A p, q \in 1..n : p # q => a[p].name # a[q].name}

\* The elements within the bound.
IsElement(e) ==
    /\ e.tag \in Tags
    /\ e.attrib \in AttribsOfLen(Len(e.attrib))
    /\ e.descendants \in SeqsOfLen(SubElems, Len(e.descendants))
    /\ Len(e.attrib) + Len(e.descendants) <= MaxItems

(* --------------------------- state machine ---------------------------- *)

Init ==
    /\ \E t \in Tags, m \in 0..MaxItems :
          \E a \in AttribsOfLen(m), d \in SeqsUpTo(SubElems, MaxItems - m) :
              element = [tag |-> t, attrib |-> a, descendants |-> d]
    /\ node = EmptyDict
    /\ pc = "shape_element"
    /\ i = 1
    /\ j = 1
    /\ outcome = "pending"

\* shape_element up to the call of transform_element_attributes, or its
\* return of None.
ShapeElementCall ==
    /\ pc = "shape_element"
    /\ IF accepts(element.tag)
       THEN /\ node' = Put(node, S_type, Str(element.tag))
            /\ pc' = "transform_element_attributes"
            /\ outcome' = outcome
       ELSE /\ node' = node
            /\ pc' = "done"
            /\ outcome' = "None"
    /\ UNCHANGED <<element, i, j>>

AttributeLoop ==
    /\ pc = "transform_element_attributes"
    /\ i <= Len(element.attrib)
    /\ LET r == attribute_step(node, element.attrib[i].name, element.attrib[i].value)
       IN  /\ node' = r.node
           /\ IF r.err = "none"
              THEN /\ i' = i + 1
                   /\ UNCHANGED <<pc, outcome>>
              ELSE /\ pc' = "done"
                   /\ outcome' = r.err
                   /\ i' = i
    /\ UNCHANGED <<element, j>>

AttributeLoopExit ==
    /\ pc = "transform_element_attributes"
    /\ i > Len(element.attrib)
    /\ pc' = "transform_sub_elem_attributes"
    /\ UNCHANGED <<element, node, i, j, outcome>>

SubElemLoop ==
    /\ pc = "transform_sub_elem_attributes"
    /\ j <= Len(getiterator(element))
    /\ LET r == sub_elem_step(node, getiterator(element)[j])
       IN  /\ node' = r.node
           /\ IF r.err = "none"
              THEN /\ j' = j + 1
                   /\ UNCHANGED <<pc, outcome>>
              ELSE /\ pc' = "done"
                   /\ outcome' = r.err
                   /\ j' = j
    /\ UNCHANGED <<element, i>>

ShapeElementReturn ==
    /\ pc = "transform_sub_elem_attributes"
    /\ j > Len(getiterator(element))
    /\ pc' = "done"
    /\ outcome' = "doc"
    /\ UNCHANGED <<element, node, i, j>>

Next ==
    \/ ShapeElementCall
    \/ AttributeLoop
    \/ AttributeLoopExit
    \/ SubElemLoop
    \/ ShapeElementReturn

Spec == Init /\ [][Next]_vars

TypeOK ==
    /\ IsElement(element)
    /\ pc \in {"shape_element", "transform_element_attributes",
               "transform_sub_elem_attributes", "done"}
    /\ outcome \in {"pending", "None", "doc", "ValueError", "KeyError",
                    "TypeError", "AttributeError"}
    /\ (pc = "done") = (outcome # "pending")

\* The stepwise run ends where shape_element, computed as a function, ends.
RunMatchesFunction ==
    pc = "done" =>
        /\ outcome = shape_element(element).outcome
        /\ outcome = "doc" => node = shape_element(element).node

(* ------------------------------ claims -------------------------------- *)

Returned == pc = "done" /\ outcome = "doc"

AttrNames(e) == {e.attrib[n].name : n \in DOMAIN e.attrib}

AttrValue(e, name) == e.attrib[CHOOSE n \in DOMAIN e.attrib : e.attrib[n].name = name].value

\* C1: an element whose tag name is neither "node" nor "way" yields None,
\* with no processing and no error, whatever it carries; an element whose
\* tag name is "node" or "way" never yields None, and what it returns is a
\* document.
C1_NoneIffNotNodeOrWay ==
    /\ element.tag \notin {S_node, S_way} =>
          /\ pc \in {"shape_element", "done"}
          /\ pc = "done" => outcome = "None"
    /\ (element.tag \in {S_node, S_way} /\ pc = "done") =>
          /\ outcome # "None"
          /\ outcome = "doc" => S_type \in DOMAIN node

C1_Witness ==
    /\ pc = "done"
    /\ outcome = "None"
    /\ element.tag = S_relation
    /\ Attr(S_lat, S_x) \in {element.attrib[n] : n \in DOMAIN element.attrib}
    /\ \E n \in DOMAIN element.descendants :
          /\ element.descendants[n].tag = S_tag
          /\ S_v \notin DOMAIN element.descendants[n].attrib

\* The problematic characters as the claim lists them.
C6_ProblematicChars ==
    {"=", "+", "/", "&", "<", ">", ";", "'", "\"", "?", "%", "#", "$", "@",
     ",", ".", " ", "\t", "\r", "\n"}

C6_SkippedKey(k) ==
    \/ \E n \in 1..Len(k) : k[n] \in C6_ProblematicChars
    \/ Len(split(k)) > 2 /\ split(k)[2] = S_street

C6_SkippedChild(c) ==
    c.tag = S_tag /\ S_k \in DOMAIN c.attrib /\ C6_SkippedKey(c.attrib[S_k])

C6_SkippedChildKV(c) == C6_SkippedChild(c) /\ S_v \in DOMAIN c.attrib

C6_NotSkippedChild(c) == ~C6_SkippedChild(c)

C6_NotSkippedChildKV(c) == ~C6_SkippedChildKV(c)

C6_AtChild == pc = "transform_sub_elem_attributes" /\ j <= Len(getiterator(element))

\* Processing the child leaves the document unchanged and goes on.
C6_StepSkips ==
    node' = node /\ pc' = pc /\ j' = j + 1 /\ outcome' = outcome

\* A child with key addr:street is processed, not skipped.
C6_AddrStreetKept ==
    (/\ C6_AtChild
     /\ getiterator(element)[j].tag = S_tag
     /\ DOMAIN getiterator(element)[j].attrib = {S_k, S_v}
     /\ getiterator(element)[j].attrib[S_k] = S_addr_street) =>
        \/ outcome' # "pending"
        \/ /\ S_address \in DOMAIN node'
           /\ IsMap(node'[S_address])
           /\ S_street \in DOMAIN node'[S_address].map
           /\ node'[S_address].map[S_street] = Str(getiterator(element)[j].attrib[S_v])

C6_SameAsWithout(e2) ==
    pc = "done" =>
        /\ shape_element(e2).outcome = outcome
        /\ outcome = "doc" => shape_element(e2).node = node

C6_FinalOriginal ==
    C6_SameAsWithout([element EXCEPT
        !.descendants = SelectSeq(element.descendants, C6_NotSkippedChild)])

C6_FinalAmended ==
    C6_SameAsWithout([element EXCEPT
        !.descendants = SelectSeq(element.descendants, C6_NotSkippedChildKV)])

\* C6 as stated: every "tag" child whose key contains a problematic
\* character, or has more than 2 ':'-segments with second segment "street",
\* is skipped with no mutation, processing continues, and the final result
\* equals that of the element without those children; addr:street is kept.
C6_Original ==
    /\ []C6_FinalOriginal
    /\ [][/\ (C6_AtChild /\ C6_SkippedChild(getiterator(element)[j])) => C6_StepSkips
          /\ C6_AddrStreetKept]_vars

\* C6 amended: the same for every such "tag" child that carries both k and
\* v (v is read before the key is examined, so a child without v raises).
C6_SkippedTagIsNoOp ==
    /\ []C6_FinalAmended
    /\ [][/\ (C6_AtChild /\ C6_SkippedChildKV(getiterator(element)[j])) => C6_StepSkips
          /\ C6_AddrStreetKept]_vars

C6_Witness ==
    /\ Returned
    /\ Len(element.descendants) = 3
    /\ element.descendants[1] = TagElem(S_addr_street_name, S_Main)
    /\ element.descendants[2] = TagElem(S_a_dot_b, S_x)
    /\ element.descendants[3] = TagElem(S_amenity, S_cafe)
    /\ node = Put(Put(EmptyDict, S_type, Str(element.tag)), S_amenity, Str(S_cafe))

\* C2: the returned document's type is the element's tag name.
C2_TypeIsTagName ==
    Returned => S_type \in DOMAIN node /\ node[S_type] = Str(element.tag)

C3_CreatedNames == {S_version, S_changeset, S_timestamp, S_user, S_uid}

\* C3: created maps exactly the element's attributes named version,
\* changeset, timestamp, user, uid to their strings, is present only if
\* there is one, and none of them is a top-level key.
C3_CreatedIsExact ==
    LET cr == AttrNames(element) \cap C3_CreatedNames
    IN  Returned =>
          /\ S_created \in DOMAIN node =>
                /\ cr # {}
                /\ node[S_created] = Map([a \in cr |-> Str(AttrValue(element, a))])
          /\ cr # {} => S_created \in DOMAIN node
          /\ \A a \in cr : a \notin DOMAIN node

C4_HasNumeric(name) ==
    name \in AttrNames(element) /\ float(AttrValue(element, name)).ok

\* C4: with numeric lat and lon attributes, pos is [float(lat), float(lon)].
C4_PosIsLatLon ==
    (Returned /\ C4_HasNumeric(S_lat) /\ C4_HasNumeric(S_lon)) =>
        /\ S_pos \in DOMAIN node
        /\ node[S_pos] = List(<<float(AttrValue(element, S_lat)).val,
                                float(AttrValue(element, S_lon)).val>>)

\* C5: pos, if present, is a list of exactly 2 floats, [lat, lon].
C5_PosIsPair ==
    (Returned /\ S_pos \in DOMAIN node) =>
        /\ IsList(node[S_pos])
        /\ Len(node[S_pos].list) = 2
        /\ \A n \in 1..2 : IsFlt(node[S_pos].list[n])
        /\ C4_HasNumeric(S_lat) /\ C4_HasNumeric(S_lon)
        /\ node[S_pos].list[1] = float(AttrValue(element, S_lat)).val
        /\ node[S_pos].list[2] = float(AttrValue(element, S_lon)).val

C7_TagChildren ==
    {n \in DOMAIN element.descendants :
        /\ element.descendants[n].tag = S_tag
        /\ DOMAIN element.descendants[n].attrib = {S_k, S_v}
        /\ ~C6_SkippedKey(element.descendants[n].attrib[S_k])}

C7_Key(n) == element.descendants[n].attrib[S_k]

C7_Val(n) == element.descendants[n].attrib[S_v]

C7_AddrChildren == {n \in C7_TagChildren : startswith(C7_Key(n), S_addr_prefix)}

C7_Expected ==
    [sub \in {split(C7_Key(n))[2] : n \in C7_AddrChildren} |->
        Str(C7_Val(CHOOSE n \in C7_AddrChildren :
                /\ split(C7_Key(n))[2] = sub
                /\ \A m \in C7_AddrChildren :
                      split(C7_Key(m))[2] = sub => m <= n))]

\* C7: address maps the second segment of every kept addr: key to its v
\* (last wins), is present only if there is such a child, the full addr: key
\* is no top-level key, and every other kept tag child is document[k] = v.
C7_AddressIsExact ==
    Returned =>
        /\ S_address \in DOMAIN node => C7_AddrChildren # {}
        /\ C7_AddrChildren # {} =>
              S_address \in DOMAIN node /\ node[S_address] = Map(C7_Expected)
        /\ \A n \in C7_AddrChildren : C7_Key(n) \notin DOMAIN node
        /\ \A n \in C7_TagChildren \ C7_AddrChildren :
              C7_Key(n) \in DOMAIN node /\ node[C7_Key(n)] = Str(C7_Val(n))

C8_IsNd(c) == c.tag = S_nd

C8_Refs ==
    LET nds == SelectSeq(element.descendants, C8_IsNd)
    IN  [n \in 1..Len(nds) |-> Str(nds[n].attrib[S_ref])]

\* C8: for a way, node_refs is the sequence of the ref strings of its nd
\* descendants in document order, and is present only if there is one.
C8_NodeRefsInOrder ==
    (Returned /\ element.tag = S_way) =>
        /\ C8_Refs # <<>> =>
              S_node_refs \in DOMAIN node /\ node[S_node_refs] = List(C8_Refs)
        /\ S_node_refs \in DOMAIN node => C8_Refs # <<>>

C9_WellFormed ==
    /\ \A n \in DOMAIN element.attrib :
          element.attrib[n].name \in {S_lat, S_lon} => float(element.attrib[n].value).ok
    /\ \A n \in DOMAIN element.descendants :
          /\ element.descendants[n].tag = S_tag =>
                {S_k, S_v} \subseteq DOMAIN element.descendants[n].attrib
          /\ element.descendants[n].tag = S_nd =>
                S_ref \in DOMAIN element.descendants[n].attrib

\* C9: a node or way whose lat/lon are numeric and whose tag/nd children
\* carry k, v and ref is shaped without error; an error is a conversion
\* error or a missing-attribute error.
C9_OnlyTwoErrors ==
    (pc = "done" /\ element.tag \in {S_node, S_way}) =>
        /\ C9_WellFormed => outcome = "doc"
        /\ outcome \in {"doc", "ValueError", "KeyError"}

C10_Reorderings ==
    LET d == element.descendants
        n == Len(d)
    IN  {p \in [1..n -> 1..n] :
            /\ \A a, b \in 1..n : a # b => p[a] # p[b]
            /\ \A a, b \in 1..n :
                  (a < b /\ d[p[a]].tag = d[p[b]].tag /\ d[p[a]].tag \in {S_tag, S_nd})
                      => p[a] < p[b]}

\* C10: reordering the children so that the tag children keep their order
\* and the nd children keep theirs does not change the final document: the
\* reordered element is shaped to a document exactly if the element is, and
\* to the same one.
C10_InterleavingUnobservable ==
    (pc = "done" /\ element.tag \in {S_node, S_way}) =>
        \A p \in C10_Reorderings :
            LET r == shape_element([element EXCEPT
                        !.descendants = [n \in DOMAIN element.descendants |->
                                            element.descendants[p[n]]]])
            IN  /\ (r.outcome = "doc") = (outcome = "doc")
                /\ outcome = "doc" => r.node = node

====
